---- MODULE Spec2Model ----
(***************************************************************************)
(* Model of the schema migration engine of the cashflow backend            *)
(* (internal/infra/postgres/postgres.go) and of the startup sequence of    *)
(* cmd/app/main.go that hosts it.                                          *)
(*                                                                         *)
(* The store (PostgreSQL) and the filesystem are opaque collaborators:     *)
(* every call the code makes to them may succeed or return an error, and   *)
(* the model chooses the outcome nondeterministically.  File names are     *)
(* sequences of one-character strings, so that strings.HasSuffix,          *)
(* strings.SplitN and strconv.Atoi are computed on the characters.         *)
(***************************************************************************)
EXTENDS Integers, Sequences, FiniteSets, TLC

\* ------------------------------------------------------------------ bounds
\* largest number of entries the migrations directory holds
MaxFiles == 3
\* number of times the process is started
MaxRuns == 2

\* ------------------------------------------------------- program constants
\* const migrationsDir = "database/migrations"
migrationsDir == <<"d", "b", "/", "m">>

\* value of a NULL applied_at column (the store clock starts at 1)
Null == 0

VARIABLES
    dir,            \* directory entries on disk: set of [name, isDir]
    tableExists,    \* app_schema_migrations exists in the store
    ledger,         \* rows of app_schema_migrations: set of [version, applied_at]
    pc,             \* position of the process in main / InitDB / RunMigrations
    migrations,     \* the slice returned by loadMigrationFiles in this run
    idx,            \* position of the range loop of applyPendingMigrations
    run,            \* number of process starts so far (also the store clock)
    failure,        \* the call whose error was seen in this run, or "none"
    runChecked,     \* history: loop positions whose applied-check was issued in this run
    runExecs,       \* history: descriptors whose body ran successfully in this run
    runInserts,     \* history: versions inserted in the ledger in this run
    ledgerAtStart,  \* history: ledger rows when this run started
    execCount,      \* history: successful body executions per version, all runs
    doneRun         \* history: last run in which RunMigrations returned, 0 once the directory changed

\* the transaction handlers (internal/domain/transaction/handler/http)
VARIABLES
    txs,            \* rows of the transactions table: set of [id, owner, proof]
    proofFiles,     \* base names of the files in uploads/proofs
    txResp          \* the response of the last handled request

\* two processes started at the same time against one store and one directory
VARIABLES
    ipc,            \* position of each instance in RunMigrations
    imigrations,    \* the slice loadMigrationFiles returned to each instance
    iidx,           \* loop position of each instance
    icheckedAbsent, \* history: versions each instance's applied-check found absent
    iexecs          \* history: descriptors whose body each instance executed

\* the rate limiter middleware and the Redis keys it counts in
VARIABLES
    routes,         \* the chain of limiter limits installed on each path
    redisCount,     \* value of each rate key in Redis, 0 when the key is absent
    redisTTL,       \* whether each rate key has an expiry set
    slots,          \* the requests being handled
    arrivals,       \* number of requests received so far
    expiries,       \* number of keys Redis has expired so far
    passed,         \* history: per path and limiter, calls of c.Next() in this lifetime of the key
    windowSeen,     \* history: per path, requests first counted in this lifetime of the key
    rlResp          \* the outcome of the last finished request

migVars == <<dir, tableExists, ledger, pc, migrations, idx, run, failure,
             runChecked, runExecs, runInserts, ledgerAtStart, execCount, doneRun>>

txVars == <<txs, proofFiles, txResp>>

concVars == <<ipc, imigrations, iidx, icheckedAbsent, iexecs>>

rlVars == <<routes, redisCount, redisTTL, slots, arrivals, expiries, passed,
            windowSeen, rlResp>>

\* what the migration engine of one process never touches
others == <<txVars, concVars, rlVars>>

\* what the transaction handlers never touch
notTx == <<migVars, concVars, rlVars>>

\* what two concurrent instances never touch: all but the store and the directory
notConc == <<pc, migrations, idx, run, failure, runChecked, runExecs, runInserts,
             ledgerAtStart, doneRun, txVars, rlVars>>

\* what the rate limiter never touches
notRl == <<migVars, txVars, concVars>>

vars == <<migVars, others>>

\* ------------------------------------------------------------ file names
Digit == {"0", "1", "2", "3", "4", "5", "6", "7", "8", "9"}

DigitVal(c) ==
    CASE c = "0" -> 0 [] c = "1" -> 1 [] c = "2" -> 2 [] c = "3" -> 3
      [] c = "4" -> 4 [] c = "5" -> 5 [] c = "6" -> 6 [] c = "7" -> 7
      [] c = "8" -> 8 [] c = "9" -> 9

SqlSuffix == <<".", "s", "q", "l">>

\* strings.HasSuffix(s, suffix)
HasSuffix(s, suffix) ==
    /\ Len(s) >= Len(suffix)
    /\ SubSeq(s, Len(s) - Len(suffix) + 1, Len(s)) = suffix

\* strings.SplitN(s, sep, 2) for a one-character separator
SplitN2(s, sep) ==
    IF \E k \in 1..Len(s) : s[k] = sep
    THEN LET k == CHOOSE k \in 1..Len(s) :
                      /\ s[k] = sep
                      /\ \A j \in 1..(k - 1) : s[j] # sep
         IN  <<SubSeq(s, 1, k - 1), SubSeq(s, k + 1, Len(s))>>
    ELSE <<s>>

RECURSIVE DecimalValue(_)
DecimalValue(s) ==
    IF s = <<>> THEN 0
    ELSE 10 * DecimalValue(SubSeq(s, 1, Len(s) - 1)) + DigitVal(s[Len(s)])

\* strconv.Atoi(s): an optional sign, then one or more decimal digits.
\* (The range check of Atoi is not reached by the short prefixes of NamePool.)
Atoi(s) ==
    LET signed == Len(s) > 0 /\ s[1] \in {"+", "-"}
        digits == IF signed THEN SubSeq(s, 2, Len(s)) ELSE s
    IN  IF digits = <<>> \/ \E k \in 1..Len(digits) : digits[k] \notin Digit
        THEN [err |-> TRUE, v |-> 0]
        ELSE [err |-> FALSE,
              v   |-> IF signed /\ s[1] = "-" THEN 0 - DecimalValue(digits)
                      ELSE DecimalValue(digits)]

\* filepath.Join(dir, name)
Join(d, name) == d \o <<"/">> \o name

NoMigrationFile == [Version |-> 0, Name |-> <<>>, Path |-> <<>>]

\* toMigrationFile(dir, f): the descriptor of a directory entry and whether it is one
toMigrationFile(d, f) ==
    IF f.isDir \/ ~HasSuffix(f.name, SqlSuffix)
    THEN [ok |-> FALSE, mf |-> NoMigrationFile]
    ELSE LET parts == SplitN2(f.name, "_")
         IN  IF Len(parts) < 2
             THEN [ok |-> FALSE, mf |-> NoMigrationFile]
             ELSE LET a == Atoi(parts[1])
                  IN  IF a.err
                      THEN [ok |-> FALSE, mf |-> NoMigrationFile]
                      ELSE [ok |-> TRUE,
                            mf |-> [Version |-> a.v,
                                    Name    |-> f.name,
                                    Path    |-> Join(d, f.name)]]

\* the orders in which a finite set can be listed
ListingOrders(S) ==
    {s \in [1..Cardinality(S) -> S] : \A e \in S : \E k \in 1..Cardinality(S) : s[k] = e}

\* the rearrangements of a sequence
Rearrangements(s) ==
    {[k \in 1..Len(s) |-> s[p[k]]] : p \in ListingOrders(1..Len(s))}

\* sort.Slice(migrations, less by Version): some rearrangement in which no
\* element is followed by one with a smaller Version (the sort is not stable)
SortSliceUnsorted(s) == {s}

SortSlice(s) ==
    {t \in Rearrangements(s) :
        \A k \in 1..(Len(t) - 1) : ~(t[k + 1].Version < t[k].Version)}

RECURSIVE appendMigrations(_, _)
\* the for loop of loadMigrationFiles over the listing
appendMigrations(d, files) ==
    IF files = <<>> THEN <<>>
    ELSE LET r == toMigrationFile(d, Head(files))
         IN  IF r.ok THEN <<r.mf>> \o appendMigrations(d, Tail(files))
             ELSE appendMigrations(d, Tail(files))

\* loadMigrationFiles(dir) once ReadDir returned `files`: the possible results
loadMigrationFiles(d, files) == SortSlice(appendMigrations(d, files))

\* -------------------------------------------------------------- directory
F(name) == [name |-> name, isDir |-> FALSE]

\* entries an operator may put in the migrations directory
NamePool ==
    { F(<<"1", "_", "a">> \o SqlSuffix),
      F(<<"0", "1", "_", "b">> \o SqlSuffix),
      F(<<"2", "_", "a">> \o SqlSuffix),
      F(<<"3", "_", "a">> \o SqlSuffix),
      F(<<"-", "5", "_", "x">> \o SqlSuffix),
      F(<<"+", "2", "_", "p">> \o SqlSuffix),
      F(<<"x", "_", "a">> \o SqlSuffix),
      F(<<"_", "e">> \o SqlSuffix),
      F(<<"2">> \o SqlSuffix),
      F(<<"2", "_", "a", ".", "t", "x", "t">>),
      [name |-> <<"3", "_", "d">> \o SqlSuffix, isDir |-> TRUE] }

\* every version a pool entry parses to
PoolVersions ==
    {toMigrationFile(migrationsDir, f).mf.Version :
        f \in {g \in NamePool : toMigrationFile(migrationsDir, g).ok}}

\* ------------------------------------------------------------------ ledger
LedgerVersions(rows) == {r.version : r \in rows}

\* SELECT EXISTS(SELECT 1 FROM app_schema_migrations WHERE version = $1)
migrationAlreadyAppliedNever(version) == FALSE

migrationAlreadyAppliedAlways(version) == TRUE

migrationAlreadyAppliedOrExecuted(version) ==
    version \in LedgerVersions(ledger) \/ execCount[version] >= 1

migrationAlreadyApplied(version) == version \in LedgerVersions(ledger)

\* INSERT INTO app_schema_migrations (version) VALUES ($1): applied_at DEFAULT NOW()
ledgerRow(version) == [version |-> version, applied_at |-> run]

\* where applyMigration goes after ioutil.ReadFile(m.Path) returned
readOutcomeIgnoreErr(err) == "exec"

readOutcome(err) == IF err THEN "exited" ELSE "exec"

\* where applyMigration goes after db.Exec(string(content)) returned
execOutcomeIgnoreErr(err) == "record"

execOutcome(err) == IF err THEN "exited" ELSE "record"

SeqRange(s) == {s[k] : k \in 1..Len(s)}

\* no request has been handled
NoResponse == [handler |-> "none", user |-> "none", status |-> 0,
               tx |-> [id |-> 0, owner |-> "none", proof |-> <<>>], file |-> <<>>]

\* ---------------------------------------------------------- rate limiter
\* loginLimiter := middleware.RateLimiter(redis, 15, 1*time.Minute)
LoginLimit == 15

\* generalLimiter := middleware.RateLimiter(redis, 100, 1*time.Minute)
GeneralLimit == 100

LoginPath == "/api/v1/auth/login"

Paths == {LoginPath, "/api/v1/categories"}

\* c.IP() of the client under study
ClientIP == "10.0.0.1"

\* key := fmt.Sprintf("rate:%s:%s", c.Path(), c.IP())
rateKey(path, ip) == <<"rate", path, ip>>

Keys == {rateKey(p, ClientIP) : p \in Paths}

\* main: app.Use(generalLimiter); auth.Post("/login", loginLimiter, authHandler.Login)
MainRoutes ==
    [p \in Paths |-> IF p = LoginPath THEN <<GeneralLimit, LoginLimit>>
                     ELSE <<GeneralLimit>>]

\* largest number of limiters on one path
MaxChain == 2

\* requests handled at the same time
MaxInFlight == 2

Slots == 1..MaxInFlight

IdleSlot == [pc |-> "idle", path |-> LoginPath, stage |-> 0, count |-> 0, k |-> 0]

NoOutcome == [path |-> LoginPath, status |-> 0, stage |-> 0, count |-> 0, k |-> 0,
              next |-> FALSE]

\* Redis is empty and no request was received
RedisIdle ==
    /\ redisCount = [key \in Keys |-> 0]
    /\ redisTTL = [key \in Keys |-> FALSE]
    /\ slots = [s \in Slots |-> IdleSlot]
    /\ arrivals = 0
    /\ expiries = 0
    /\ passed = [p \in Paths |-> [n \in 1..MaxChain |-> 0]]
    /\ windowSeen = [p \in Paths |-> 0]
    /\ rlResp = NoOutcome

\* the limiters of main, before any request
RlIdle ==
    /\ routes = MainRoutes
    /\ RedisIdle

Instances == {1, 2}

\* no second instance
ConcIdle ==
    /\ ipc = [i \in Instances |-> "exited"]
    /\ imigrations = [i \in Instances |-> <<>>]
    /\ iidx = [i \in Instances |-> 0]
    /\ icheckedAbsent = [i \in Instances |-> {}]
    /\ iexecs = [i \in Instances |-> <<>>]

\* the request handlers are not part of the engine's behaviour
TxIdle ==
    /\ txs = {}
    /\ proofFiles = {}
    /\ txResp = NoResponse

\* ------------------------------------------------------------------- Init
MigIdle ==
    /\ dir = {}
    /\ tableExists = FALSE
    /\ ledger = {}
    /\ pc = "exited"
    /\ migrations = <<>>
    /\ idx = 0
    /\ run = 0
    /\ failure = "none"
    /\ runChecked = {}
    /\ runExecs = <<>>
    /\ runInserts = <<>>
    /\ ledgerAtStart = {}
    /\ execCount = [v \in PoolVersions |-> 0]
    /\ doneRun = 0

Init ==
    /\ MigIdle
    /\ TxIdle
    /\ ConcIdle
    /\ RlIdle

history == <<runChecked, runExecs, runInserts, ledgerAtStart, execCount, doneRun>>

\* log.Fatal / log.Fatalf after the call `what` returned an error
Fatal(what) ==
    /\ pc' = "exited"
    /\ failure' = what

\* ---------------------------------------------------------------- actions
\* an operator adds a file to the migrations directory while the process is down
AddFile ==
    /\ pc = "exited"
    /\ Cardinality(dir) < MaxFiles
    /\ \E f \in NamePool \ dir : dir' = dir \cup {f}
    /\ doneRun' = 0
    /\ UNCHANGED <<tableExists, ledger, pc, migrations, idx, run, failure,
                   runChecked, runExecs, runInserts, ledgerAtStart, execCount>>
    /\ UNCHANGED others

\* the process is started: main up to the call of InitDB
StartProcess ==
    /\ pc = "exited"
    /\ run < MaxRuns
    /\ run' = run + 1
    /\ pc' = "InitDB"
    /\ failure' = "none"
    /\ migrations' = <<>>
    /\ idx' = 0
    /\ runChecked' = {}
    /\ runExecs' = <<>>
    /\ runInserts' = <<>>
    /\ ledgerAtStart' = ledger
    /\ UNCHANGED <<dir, tableExists, ledger, execCount, doneRun>>
    /\ UNCHANGED others

\* InitDB up to the call of RunMigrations: sql.Open and db.Ping
InitDB ==
    /\ pc = "InitDB"
    /\ \E err \in BOOLEAN :
          IF err THEN Fatal("connect")
          ELSE pc' = "ensureMigrationsTable" /\ UNCHANGED failure
    /\ UNCHANGED <<dir, tableExists, ledger, migrations, idx, run>>
    /\ UNCHANGED history
    /\ UNCHANGED others

\* CREATE TABLE IF NOT EXISTS app_schema_migrations
ensureMigrationsTable ==
    /\ pc = "ensureMigrationsTable"
    /\ \E err \in BOOLEAN :
          IF err THEN Fatal("ensureTable") /\ UNCHANGED tableExists
          ELSE /\ tableExists' = TRUE
               /\ pc' = "loadMigrationFiles"
               /\ UNCHANGED failure
    /\ UNCHANGED <<dir, ledger, migrations, idx, run>>
    /\ UNCHANGED history
    /\ UNCHANGED others

\* loadMigrationFiles(migrationsDir)
LoadMigrationFiles ==
    /\ pc = "loadMigrationFiles"
    /\ \/ Fatal("readDir") /\ UNCHANGED <<migrations, idx>>
       \/ \E files \in ListingOrders(dir) :
             \E sorted \in loadMigrationFiles(migrationsDir, files) :
                /\ migrations' = sorted
                /\ idx' = 1
                /\ pc' = "applyPendingMigrations"
                /\ UNCHANGED failure
    /\ UNCHANGED <<dir, tableExists, ledger, run>>
    /\ UNCHANGED history
    /\ UNCHANGED others

\* one turn of the range loop of applyPendingMigrations: the applied-check
ApplyPendingMigrations ==
    /\ pc = "applyPendingMigrations"
    /\ idx <= Len(migrations)
    /\ runChecked' = runChecked \cup {idx}
    /\ \/ Fatal("check") /\ UNCHANGED idx
       \/ /\ tableExists
          /\ UNCHANGED failure
          /\ IF migrationAlreadyApplied(migrations[idx].Version)
             THEN idx' = idx + 1 /\ UNCHANGED pc
             ELSE pc' = "applyMigration" /\ UNCHANGED idx
    /\ UNCHANGED <<dir, tableExists, ledger, migrations, run,
                   runExecs, runInserts, ledgerAtStart, execCount, doneRun>>
    /\ UNCHANGED others

\* applyMigration: ioutil.ReadFile(m.Path)
ApplyMigrationRead ==
    /\ pc = "applyMigration"
    /\ \E err \in BOOLEAN :
          /\ pc' = readOutcome(err)
          /\ IF err THEN failure' = "readFile" ELSE UNCHANGED failure
    /\ UNCHANGED <<dir, tableExists, ledger, migrations, idx, run>>
    /\ UNCHANGED history
    /\ UNCHANGED others

\* applyMigration: db.Exec(string(content))
ApplyMigrationExec ==
    /\ pc = "exec"
    /\ \E err \in BOOLEAN :
          /\ pc' = execOutcome(err)
          /\ IF err
             THEN failure' = "exec" /\ UNCHANGED <<runExecs, execCount>>
             ELSE /\ UNCHANGED failure
                  /\ runExecs' = Append(runExecs, migrations[idx])
                  /\ execCount' = [execCount EXCEPT ![migrations[idx].Version] = @ + 1]
    /\ UNCHANGED <<dir, tableExists, ledger, migrations, idx, run,
                   runChecked, runInserts, ledgerAtStart, doneRun>>
    /\ UNCHANGED others

\* applyMigration: the INSERT; version is the primary key of the table
ApplyMigrationRecord ==
    /\ pc = "record"
    /\ LET v == migrations[idx].Version
       IN  \/ Fatal("record") /\ UNCHANGED <<ledger, idx, runInserts>>
           \/ /\ tableExists
              /\ v \notin LedgerVersions(ledger)
              /\ ledger' = ledger \cup {ledgerRow(v)}
              /\ runInserts' = Append(runInserts, v)
              /\ idx' = idx + 1
              /\ pc' = "applyPendingMigrations"
              /\ UNCHANGED failure
    /\ UNCHANGED <<dir, tableExists, migrations, run,
                   runChecked, runExecs, ledgerAtStart, execCount, doneRun>>
    /\ UNCHANGED others

\* the loop is over: applyPendingMigrations, RunMigrations and InitDB return
RunMigrationsReturn ==
    /\ pc = "applyPendingMigrations"
    /\ idx > Len(migrations)
    /\ pc' = "main"
    /\ doneRun' = run
    /\ UNCHANGED <<dir, tableExists, ledger, migrations, idx, run, failure,
                   runChecked, runExecs, runInserts, ledgerAtStart, execCount>>
    /\ UNCHANGED others

\* main after InitDB: the seeder, Redis, the routes, then app.Listen
MainListen ==
    /\ pc = "main"
    /\ \/ Fatal("seed")
       \/ Fatal("listen")
       \/ pc' = "serving" /\ UNCHANGED failure
    /\ UNCHANGED <<dir, tableExists, ledger, migrations, idx, run>>
    /\ UNCHANGED history
    /\ UNCHANGED others

\* the serving process is stopped
Shutdown ==
    /\ pc = "serving"
    /\ pc' = "exited"
    /\ UNCHANGED <<dir, tableExists, ledger, migrations, idx, run, failure>>
    /\ UNCHANGED history
    /\ UNCHANGED others

Next ==
    \/ AddFile
    \/ StartProcess
    \/ InitDB
    \/ ensureMigrationsTable
    \/ LoadMigrationFiles
    \/ ApplyPendingMigrations
    \/ ApplyMigrationRead
    \/ ApplyMigrationExec
    \/ ApplyMigrationRecord
    \/ RunMigrationsReturn
    \/ MainListen
    \/ Shutdown

Spec == Init /\ [][Next]_vars

TypeOK ==
    /\ dir \subseteq NamePool
    /\ tableExists \in BOOLEAN
    /\ run \in 0..MaxRuns
    /\ idx \in 0..(MaxFiles + 1)

\* ------------------------------------------------------------- properties
VersionsOf(ms) == {ms[k].Version : k \in 1..Len(ms)}

\* loadMigrationFiles has returned in the current run
Loaded == pc \in {"applyPendingMigrations", "applyMigration", "exec", "record", "main", "serving"}

\* <decimal-version>_<label>.sql : digits, the separator, a label, the suffix
WellFormedName(name) ==
    /\ HasSuffix(name, SqlSuffix)
    /\ \E k \in 2..Len(name) :
          /\ name[k] = "_"
          /\ \A j \in 1..(k - 1) : name[j] \in Digit

AllWellFormed(d) == \A f \in d : ~f.isDir /\ WellFormedName(f.name)

NoRepeats(s) == \A a, b \in 1..Len(s) : a # b => s[a] # s[b]

\* C1: once a run of RunMigrations has returned and the directory has not
\* changed since, a later run executes no migration body and inserts no
\* ledger row: every applied-check it issues reports already-applied.
C1_Idempotence ==
    (doneRun > 0 /\ run > doneRun) =>
        /\ runExecs = <<>>
        /\ runInserts = <<>>
        /\ pc \notin {"applyMigration", "exec", "record"}
        /\ ledger = ledgerAtStart

C1_Witness ==
    /\ doneRun > 0
    /\ run > doneRun
    /\ pc = "applyPendingMigrations"
    /\ Len(migrations) >= 2
    /\ idx > Len(migrations)
    /\ runChecked = 1..Len(migrations)

\* C2: when db.Exec of the body of descriptor k fails the process exits at
\* k; every descriptor before k is in the ledger (the pending ones executed
\* and recorded in this run), k is not recorded, nothing after k was
\* checked, executed or recorded, and the ledger is what it was at the start
\* of the run plus the versions before k (exactly those from an empty ledger).
C2_FailFast ==
    (failure = "exec") =>
        /\ pc = "exited"
        /\ idx \in 1..Len(migrations)
        /\ \A j \in 1..(idx - 1) :
              /\ migrations[j].Version \in LedgerVersions(ledger)
              /\ migrations[j].Version \notin LedgerVersions(ledgerAtStart) =>
                    /\ migrations[j].Version \in VersionsOf(runExecs)
                    /\ migrations[j].Version \in SeqRange(runInserts)
        /\ migrations[idx].Version \notin LedgerVersions(ledger)
        /\ runChecked = 1..idx
        /\ SeqRange(runExecs) \subseteq {migrations[j] : j \in 1..(idx - 1)}
        /\ SeqRange(runInserts) \subseteq {migrations[j].Version : j \in 1..(idx - 1)}
        /\ LedgerVersions(ledger) =
              LedgerVersions(ledgerAtStart) \cup {migrations[j].Version : j \in 1..(idx - 1)}
        /\ ledgerAtStart = {} =>
              LedgerVersions(ledger) =
                 {v \in VersionsOf(migrations) : v < migrations[idx].Version}

C2_Witness ==
    /\ failure = "exec"
    /\ Len(migrations) = 3
    /\ idx = 2
    /\ ledgerAtStart = {}
    /\ Cardinality(ledger) = 1

\* C3: when the body of a descriptor is about to be executed, every
\* descriptor of this run with a lower version is recorded in the ledger,
\* and the bodies executed so far in the run have strictly ascending
\* versions, all below the one about to run.
C3_AscendingApplication ==
    /\ (pc = "exec") =>
          /\ \A j \in 1..Len(migrations) :
                migrations[j].Version < migrations[idx].Version =>
                   migrations[j].Version \in LedgerVersions(ledger)
          /\ \A k \in 1..Len(runExecs) :
                runExecs[k].Version < migrations[idx].Version
    /\ \A k \in 1..(Len(runExecs) - 1) :
          runExecs[k].Version < runExecs[k + 1].Version

C3_Witness ==
    /\ pc = "exec"
    /\ Len(runExecs) >= 1
    /\ \E j \in 1..Len(migrations) : migrations[j].Version < migrations[idx].Version

\* C4 (as claimed): over all runs no version has its body executed
\* successfully twice, and when a run completes every discovered version
\* has been executed successfully exactly once.
C4_ExactlyOnce ==
    /\ \A v \in PoolVersions : execCount[v] <= 1
    /\ (pc = "main") => \A v \in VersionsOf(migrations) : execCount[v] = 1

\* C5: a run that started from an empty ledger and whose RunMigrations
\* returned leaves one ledger row per discovered version and no other row,
\* each with a non-null applied_at.
C5_LedgerCompleteness ==
    (pc \in {"main", "serving"} /\ ledgerAtStart = {}) =>
        /\ LedgerVersions(ledger) = VersionsOf(migrations)
        /\ Cardinality(ledger) = Cardinality(VersionsOf(migrations))
        /\ \A r \in ledger : r.applied_at # Null

C5_Witness ==
    /\ pc = "main"
    /\ ledgerAtStart = {}
    /\ Cardinality(ledger) = 3

\* C6: no step removes a ledger row, and a step that adds a row adds the
\* version of the discovered descriptor whose body was the last one to be
\* executed successfully in this run.
C6_LedgerAppendOnlySound ==
    [][ /\ ledger \subseteq ledger'
        /\ \A r \in ledger' \ ledger :
              /\ r.version \in VersionsOf(migrations)
              /\ runExecs # <<>>
              /\ runExecs[Len(runExecs)].Version = r.version
              /\ execCount[r.version] >= 1 ]_vars

C6_Witness ==
    /\ failure = "exec"
    /\ pc = "exited"
    /\ Cardinality(ledger) >= 2
    /\ \E v \in VersionsOf(migrations) : v \notin LedgerVersions(ledger)

\* C7 (as claimed): for a non-empty directory of well-formed names the
\* returned descriptors are strictly ascending by version.
C7_StrictlyAscending ==
    (Loaded /\ dir # {} /\ AllWellFormed(dir)) =>
        \A k \in 1..(Len(migrations) - 1) :
            migrations[k].Version < migrations[k + 1].Version

\* C7 (amended): for a non-empty directory of well-formed names every file
\* is returned, no descriptor is followed by one with a smaller version, and
\* the order is strictly ascending when the parsed versions are distinct.
C7_Ascending ==
    (Loaded /\ dir # {} /\ AllWellFormed(dir)) =>
        /\ {migrations[k].Name : k \in 1..Len(migrations)} = {f.name : f \in dir}
        /\ Len(migrations) = Cardinality(dir)
        /\ \A k \in 1..(Len(migrations) - 1) :
              migrations[k].Version <= migrations[k + 1].Version
        /\ Cardinality(VersionsOf(migrations)) = Len(migrations) =>
              \A k \in 1..(Len(migrations) - 1) :
                  migrations[k].Version < migrations[k + 1].Version

C7_Witness ==
    /\ Loaded
    /\ AllWellFormed(dir)
    /\ Len(migrations) = 3
    /\ migrations[1].Version = migrations[2].Version
    /\ migrations[2].Version < migrations[3].Version

\* C8 (as claimed): a file whose prefix is not an unsigned decimal integer
\* is left out, every returned version is >= 0, and every well-formed file
\* of the directory is returned.
C8_NamePolicy ==
    Loaded =>
        /\ \A k \in 1..Len(migrations) :
              /\ migrations[k].Version >= 0
              /\ WellFormedName(migrations[k].Name)
        /\ \A f \in dir :
              (~f.isDir /\ WellFormedName(f.name)) =>
                  \E k \in 1..Len(migrations) : migrations[k].Name = f.name

\* C9: while the server is serving no call of the startup has failed, the
\* ledger table exists and every descriptor of the directory is recorded in
\* the ledger; after a failed call the process is not serving.
C9_ServingGate ==
    /\ (pc = "serving") =>
          /\ failure = "none"
          /\ tableExists
          /\ VersionsOf(migrations) \subseteq LedgerVersions(ledger)
          /\ \A f \in dir :
                toMigrationFile(migrationsDir, f).ok =>
                   toMigrationFile(migrationsDir, f).mf.Version \in LedgerVersions(ledger)
    /\ (failure # "none") => pc = "exited"

C9_Witness ==
    /\ pc = "serving"
    /\ Len(migrations) >= 2
    /\ runInserts # <<>>

\* C10: the INSERT for a version is issued only while the version is absent
\* from the ledger; with several files of one version in the directory the
\* scan still returns, at most one of their bodies is executed in a run and
\* the version is inserted once.
C10_RecordPrecondition ==
    /\ (pc = "record") => migrations[idx].Version \notin LedgerVersions(ledger)
    /\ NoRepeats([k \in 1..Len(runExecs) |-> runExecs[k].Version])
    /\ NoRepeats(runInserts)
    /\ Cardinality(ledger) = Cardinality(LedgerVersions(ledger))

C10_Witness ==
    /\ pc = "main"
    /\ Cardinality(VersionsOf(migrations)) < Len(migrations)
    /\ Len(runExecs) = 2
    /\ Len(runInserts) = 2
    /\ \E a, b \in 1..Len(migrations) :
          /\ a # b
          /\ migrations[a].Version = migrations[b].Version
          /\ migrations[a].Version \in SeqRange(runInserts)

\* successful executions of a body of version v in the current run
ExecsInRun(v) == Cardinality({k \in 1..Len(runExecs) : runExecs[k].Version = v})

\* C12: when a body of version v was executed in an earlier run and v was
\* absent from the ledger when this run started (executed, not recorded,
\* run aborted), the run does not move past v without executing a body of
\* v again.
C12_PartialApplicationHazard ==
    \A k \in 1..Len(migrations) :
        LET v == migrations[k].Version
        IN  (/\ v \notin LedgerVersions(ledgerAtStart)
             /\ execCount[v] - ExecsInRun(v) >= 1
             /\ (k < idx \/ (k = idx /\ pc = "record"))) =>
                /\ ExecsInRun(v) = 1
                /\ execCount[v] >= 2

C12_Witness ==
    /\ run = 2
    /\ pc = "record"
    /\ failure = "none"
    /\ migrations[idx].Version \notin LedgerVersions(ledger)
    /\ execCount[migrations[idx].Version] = 2
    /\ ExecsInRun(migrations[idx].Version) = 1

\* C13: once the applied-check or the file read of the descriptor at the
\* loop position has failed, the process has exited, the loop position does
\* not move, no later position was checked, the body of that descriptor was
\* not executed, a version whose file could not be read is not in the
\* ledger, and no step changes the ledger or executes a body.
C13_FailuresBeforeExecution ==
    [][ (failure' \in {"check", "readFile"}) =>
          /\ pc' = "exited"
          /\ ledger' = ledger
          /\ execCount' = execCount
          /\ runExecs' = runExecs
          /\ runInserts' = runInserts
          /\ idx' = idx
          /\ idx \in 1..Len(migrations)
          /\ runChecked' = 1..idx
          /\ migrations[idx] \notin SeqRange(runExecs')
          /\ (failure' = "readFile") =>
                /\ migrations[idx].Version \notin LedgerVersions(ledger')
                /\ migrations[idx].Version \notin VersionsOf(runExecs') ]_vars

C13_Witness ==
    /\ failure = "readFile"
    /\ pc = "exited"
    /\ Len(migrations) = 3
    /\ idx = 2
    /\ Len(runExecs) = 1
    /\ Cardinality(ledger) = 1

\* C14 (as claimed): a body of version v has never just been executed
\* while the ledger holds a version greater than v.
C14_StrictOrderAcrossRuns ==
    (pc = "record") =>
        \A r \in ledger : r.version < migrations[idx].Version

\* ------------------------------------------------ the transaction handlers
\* bounds: transaction ids, and the seconds of time.Now().Unix() at upload
MaxTx == 2

MaxClock == 2

Users == {"A", "B"}

TxIds == 1..MaxTx

\* c.Locals("userID"): the authenticated user, or "none" when it is not a uuid.UUID
Locals == Users \cup {"none"}

\* c.Params("id"): blank, not a UUID, or the UUID of a transaction id
IdParams ==
    {[kind |-> "blank", id |-> 0], [kind |-> "malformed", id |-> 0]}
        \cup {[kind |-> "uuid", id |-> n] : n \in TxIds}

\* uploadDir := "./uploads/proofs"
uploadDir == <<".", "uploads", "proofs">>

\* names of uploaded files
UploadNames == {"r"}

\* filepath.Base(path): the last element, "" for no path
Base(path) == IF path = <<>> THEN <<>> ELSE path[Len(path)]

\* h.service.GetTransactionByID(ctx, id): looked up by id alone; the row or an error
serviceGetTransactionByID(id) ==
    IF \E t \in txs : t.id = id
    THEN [err |-> FALSE, tx |-> CHOOSE t \in txs : t.id = id]
    ELSE [err |-> TRUE, tx |-> NoResponse.tx]

Respond(handler, user, status, tx, file) ==
    txResp' = [handler |-> handler, user |-> user, status |-> status,
               tx |-> tx, file |-> file]

\* CreateTransaction: the owner of the new row is the authenticated user
CreateTransaction ==
    /\ UNCHANGED notTx
    /\ \E user \in Locals, valid \in BOOLEAN, upload \in BOOLEAN,
       name \in UploadNames, now \in 1..MaxClock, ioErr \in BOOLEAN, svcErr \in BOOLEAN :
       LET filePath == uploadDir \o << <<now, name>> >>
           proofPath == IF upload THEN filePath ELSE <<>>
       IN  IF user = "none"
           THEN Respond("CreateTransaction", user, 401, NoResponse.tx, <<>>)
                   /\ UNCHANGED <<txs, proofFiles>>
           ELSE IF ~valid
           THEN Respond("CreateTransaction", user, 400, NoResponse.tx, <<>>)
                   /\ UNCHANGED <<txs, proofFiles>>
           ELSE IF upload /\ ioErr
           THEN Respond("CreateTransaction", user, 500, NoResponse.tx, <<>>)
                   /\ UNCHANGED <<txs, proofFiles>>
           ELSE /\ proofFiles' = IF upload THEN proofFiles \cup {Base(filePath)} ELSE proofFiles
                /\ IF svcErr \/ \A n \in TxIds : \E t \in txs : t.id = n
                   THEN Respond("CreateTransaction", user, 500, NoResponse.tx, <<>>)
                           /\ UNCHANGED txs
                   ELSE \E n \in TxIds :
                           /\ \A t \in txs : t.id # n
                           /\ LET row == [id |-> n, owner |-> user, proof |-> proofPath]
                              IN  /\ txs' = txs \cup {row}
                                  /\ Respond("CreateTransaction", user, 201, row, <<>>)

\* the ownership test of UpdateTransaction and DeleteTransaction
ownerTest(tx, userID) == tx.owner # userID

\* GetTransactionByID: the ownership test is commented out (lines 141-143)
GetTransactionByID ==
    /\ UNCHANGED notTx
    /\ \E user \in Locals, idParam \in IdParams :
       /\ IF user = "none"
          THEN Respond("GetTransactionByID", user, 401, NoResponse.tx, <<>>)
          ELSE IF idParam.kind # "uuid"
          THEN Respond("GetTransactionByID", user, 400, NoResponse.tx, <<>>)
          ELSE LET result == serviceGetTransactionByID(idParam.id)
               IN  IF result.err
                   THEN Respond("GetTransactionByID", user, 404, NoResponse.tx, <<>>)
                   ELSE Respond("GetTransactionByID", user, 200, result.tx, <<>>)
       /\ UNCHANGED <<txs, proofFiles>>

\* GetProofFile: the ownership test is commented out (lines 359-361)
GetProofFile ==
    /\ UNCHANGED notTx
    /\ \E user \in Locals, idParam \in IdParams :
       /\ IF user = "none"
          THEN Respond("GetProofFile", user, 401, NoResponse.tx, <<>>)
          ELSE IF idParam.kind # "uuid"
          THEN Respond("GetProofFile", user, 400, NoResponse.tx, <<>>)
          ELSE LET r == serviceGetTransactionByID(idParam.id)
               IN  IF r.err \/ r.tx.proof = <<>> \/ Base(r.tx.proof) \notin proofFiles
                   THEN Respond("GetProofFile", user, 404, NoResponse.tx, <<>>)
                   ELSE Respond("GetProofFile", user, 200, r.tx,
                                <<"uploads", "proofs", Base(r.tx.proof)>>)
       /\ UNCHANGED <<txs, proofFiles>>

\* DeleteTransaction: refused unless the row belongs to the authenticated user
DeleteTransaction ==
    /\ UNCHANGED notTx
    /\ \E user \in Locals, idParam \in IdParams, svcErr \in BOOLEAN :
       /\ IF user = "none"
          THEN Respond("DeleteTransaction", user, 401, NoResponse.tx, <<>>)
                  /\ UNCHANGED txs
          ELSE IF idParam.kind # "uuid"
          THEN Respond("DeleteTransaction", user, 400, NoResponse.tx, <<>>)
                  /\ UNCHANGED txs
          ELSE LET existingTx == serviceGetTransactionByID(idParam.id)
               IN  IF existingTx.err
                   THEN Respond("DeleteTransaction", user, 404, NoResponse.tx, <<>>)
                           /\ UNCHANGED txs
                   ELSE IF ownerTest(existingTx.tx, user)
                   THEN Respond("DeleteTransaction", user, 401, NoResponse.tx, <<>>)
                           /\ UNCHANGED txs
                   ELSE IF svcErr
                   THEN Respond("DeleteTransaction", user, 500, NoResponse.tx, <<>>)
                           /\ UNCHANGED txs
                   ELSE /\ txs' = txs \ {existingTx.tx}
                        /\ Respond("DeleteTransaction", user, 200, existingTx.tx, <<>>)
       /\ UNCHANGED proofFiles

\* a file of uploads/proofs is removed from the disk
RemoveProofFile ==
    /\ \E f \in proofFiles : proofFiles' = proofFiles \ {f}
    /\ UNCHANGED <<txs, txResp>>
    /\ UNCHANGED notTx

TxNext ==
    \/ CreateTransaction
    \/ GetTransactionByID
    \/ GetProofFile
    \/ DeleteTransaction
    \/ RemoveProofFile

TxSpec == Init /\ [][TxNext]_vars

\* C11 (as claimed): a 200 response of GetTransactionByID or GetProofFile
\* carries a transaction whose owner is the authenticated user of the request.
C11_ReadAccessPerUser ==
    (txResp.status = 200 /\ txResp.handler \in {"GetTransactionByID", "GetProofFile"}) =>
        txResp.tx.owner = txResp.user

\* ------------------------------------ two instances of the engine at once
\* largest directory the two instances find
MaxConcFiles == 2

\* both processes have connected; the store is new and its clock reads 1
ConcInit ==
    /\ dir \in {d \in SUBSET NamePool : Cardinality(d) <= MaxConcFiles}
    /\ tableExists = FALSE
    /\ ledger = {}
    /\ execCount = [v \in PoolVersions |-> 0]
    /\ pc = "exited"
    /\ migrations = <<>>
    /\ idx = 0
    /\ run = 1
    /\ failure = "none"
    /\ runChecked = {}
    /\ runExecs = <<>>
    /\ runInserts = <<>>
    /\ ledgerAtStart = {}
    /\ doneRun = 0
    /\ TxIdle
    /\ RlIdle
    /\ ipc = [i \in Instances |-> "ensureMigrationsTable"]
    /\ imigrations = [i \in Instances |-> <<>>]
    /\ iidx = [i \in Instances |-> 0]
    /\ icheckedAbsent = [i \in Instances |-> {}]
    /\ iexecs = [i \in Instances |-> <<>>]

Goto(i, where) == ipc' = [ipc EXCEPT ![i] = where]

\* ensureMigrationsTable of instance i
instEnsureMigrationsTable(i) ==
    /\ ipc[i] = "ensureMigrationsTable"
    /\ \E err \in BOOLEAN :
          IF err THEN Goto(i, "exited") /\ UNCHANGED tableExists
          ELSE tableExists' = TRUE /\ Goto(i, "loadMigrationFiles")
    /\ UNCHANGED <<dir, ledger, execCount, imigrations, iidx, icheckedAbsent, iexecs>>
    /\ UNCHANGED notConc

\* loadMigrationFiles of instance i
instLoadMigrationFiles(i) ==
    /\ ipc[i] = "loadMigrationFiles"
    /\ \/ Goto(i, "exited") /\ UNCHANGED <<imigrations, iidx>>
       \/ \E files \in ListingOrders(dir) :
             \E sorted \in loadMigrationFiles(migrationsDir, files) :
                /\ imigrations' = [imigrations EXCEPT ![i] = sorted]
                /\ iidx' = [iidx EXCEPT ![i] = 1]
                /\ Goto(i, "applyPendingMigrations")
    /\ UNCHANGED <<dir, tableExists, ledger, execCount, icheckedAbsent, iexecs>>
    /\ UNCHANGED notConc

\* one turn of the loop of applyPendingMigrations of instance i
instApplyPendingMigrations(i) ==
    /\ ipc[i] = "applyPendingMigrations"
    /\ iidx[i] <= Len(imigrations[i])
    /\ LET v == imigrations[i][iidx[i]].Version
       IN  \/ Goto(i, "exited") /\ UNCHANGED <<iidx, icheckedAbsent>>
           \/ /\ tableExists
              /\ IF migrationAlreadyApplied(v)
                 THEN /\ iidx' = [iidx EXCEPT ![i] = @ + 1]
                      /\ UNCHANGED <<ipc, icheckedAbsent>>
                 ELSE /\ Goto(i, "applyMigration")
                      /\ icheckedAbsent' =
                            [icheckedAbsent EXCEPT ![i] =
                                IF v \in LedgerVersions(ledger) THEN @ ELSE @ \cup {v}]
                      /\ UNCHANGED iidx
    /\ UNCHANGED <<dir, tableExists, ledger, execCount, imigrations, iexecs>>
    /\ UNCHANGED notConc

\* applyMigration of instance i: ioutil.ReadFile
instApplyMigrationRead(i) ==
    /\ ipc[i] = "applyMigration"
    /\ \E err \in BOOLEAN : Goto(i, readOutcome(err))
    /\ UNCHANGED <<dir, tableExists, ledger, execCount, imigrations, iidx,
                   icheckedAbsent, iexecs>>
    /\ UNCHANGED notConc

\* applyMigration of instance i: db.Exec of the body
instApplyMigrationExec(i) ==
    /\ ipc[i] = "exec"
    /\ \E err \in BOOLEAN :
          /\ Goto(i, execOutcome(err))
          /\ IF err THEN UNCHANGED <<iexecs, execCount>>
             ELSE LET m == imigrations[i][iidx[i]]
                  IN  /\ iexecs' = [iexecs EXCEPT ![i] = Append(@, m)]
                      /\ execCount' = [execCount EXCEPT ![m.Version] = @ + 1]
    /\ UNCHANGED <<dir, tableExists, ledger, imigrations, iidx, icheckedAbsent>>
    /\ UNCHANGED notConc

\* applyMigration of instance i: the INSERT, refused by the primary key when
\* the other instance recorded the version first
instApplyMigrationRecord(i) ==
    /\ ipc[i] = "record"
    /\ LET v == imigrations[i][iidx[i]].Version
       IN  \/ Goto(i, "exited") /\ UNCHANGED <<ledger, iidx>>
           \/ /\ tableExists
              /\ v \notin LedgerVersions(ledger)
              /\ ledger' = ledger \cup {ledgerRow(v)}
              /\ iidx' = [iidx EXCEPT ![i] = @ + 1]
              /\ Goto(i, "applyPendingMigrations")
    /\ UNCHANGED <<dir, tableExists, execCount, imigrations, icheckedAbsent, iexecs>>
    /\ UNCHANGED notConc

\* the loop of instance i is over
instRunMigrationsReturn(i) ==
    /\ ipc[i] = "applyPendingMigrations"
    /\ iidx[i] > Len(imigrations[i])
    /\ Goto(i, "main")
    /\ UNCHANGED <<dir, tableExists, ledger, execCount, imigrations, iidx,
                   icheckedAbsent, iexecs>>
    /\ UNCHANGED notConc

ConcNext ==
    \/ \E i \in Instances : instEnsureMigrationsTable(i)
    \/ \E i \in Instances : instLoadMigrationFiles(i)
    \/ \E i \in Instances : instApplyPendingMigrations(i)
    \/ \E i \in Instances : instApplyMigrationRead(i)
    \/ \E i \in Instances : instApplyMigrationExec(i)
    \/ \E i \in Instances : instApplyMigrationRecord(i)
    \/ \E i \in Instances : instRunMigrationsReturn(i)

ConcSpec == ConcInit /\ [][ConcNext]_vars

\* C15: an instance executes a body of version v only after its own
\* applied-check found v absent from the ledger, so a version executed by
\* both instances was read as not applied by both before either recorded
\* it; the primary key lets at most one of the two INSERTs succeed.
C15_ConcurrentApplication ==
    /\ \A i \in Instances :
          \A v \in VersionsOf(iexecs[i]) : v \in icheckedAbsent[i]
    /\ \A i \in Instances :
          ipc[i] \in {"applyMigration", "exec", "record"} =>
             imigrations[i][iidx[i]].Version \in icheckedAbsent[i]
    /\ Cardinality(ledger) = Cardinality(LedgerVersions(ledger))

C15_Witness ==
    \E v \in PoolVersions :
        /\ v \in VersionsOf(iexecs[1])
        /\ v \in VersionsOf(iexecs[2])
        /\ ipc[1] = "record"
        /\ ipc[2] = "record"
        /\ v \notin LedgerVersions(ledger)
        /\ execCount[v] = 2

\* ------------------------------------------- the rate limiter at work
\* bounds: limit of the limiter under study, requests received, keys expired
MaxLimit == 2

MaxArrivals == 4

MaxLoginArrivals == 17

MaxExpiries == 1

\* requests the model lets in: enough to pass the login limit under main's routes
ArrivalCap ==
    IF routes[LoginPath] = MainRoutes[LoginPath] THEN MaxLoginArrivals ELSE MaxArrivals

\* one limiter of limit `limit` installed on every path, Redis empty
RlInit ==
    /\ MigIdle
    /\ TxIdle
    /\ ConcIdle
    /\ routes \in {[p \in Paths |-> <<limit>>] : limit \in 0..MaxLimit}
    /\ RedisIdle

\* a request is received and enters the first limiter of its path
Arrive(s) ==
    /\ slots[s].pc = "idle"
    /\ arrivals < ArrivalCap
    /\ arrivals' = arrivals + 1
    /\ \E path \in DOMAIN routes :
          slots' = [slots EXCEPT ![s] =
                       [pc |-> "incr", path |-> path, stage |-> 1, count |-> 0, k |-> 0]]
    /\ UNCHANGED <<routes, redisCount, redisTTL, expiries, passed, windowSeen, rlResp>>
    /\ UNCHANGED notRl

\* if count > int64(limit)
overLimitOffByOne(count, limit) == count > limit + 1

overLimit(count, limit) == count > limit

\* the limiter of slot s after Incr (and Expire): 429, or c.Next()
Decide(s, count, k) ==
    LET r == slots[s]
        chain == routes[r.path]
    IN  IF overLimit(count, chain[r.stage])
        THEN /\ slots' = [slots EXCEPT ![s] = IdleSlot]
             /\ rlResp' = [path |-> r.path, status |-> 429, stage |-> r.stage,
                           count |-> count, k |-> k, next |-> FALSE]
             /\ UNCHANGED passed
        ELSE /\ passed' = [passed EXCEPT ![r.path][r.stage] = @ + 1]
             /\ IF r.stage < Len(chain)
                THEN /\ slots' = [slots EXCEPT ![s] =
                                     [pc |-> "incr", path |-> r.path,
                                      stage |-> r.stage + 1, count |-> 0, k |-> k]]
                     /\ UNCHANGED rlResp
                ELSE /\ slots' = [slots EXCEPT ![s] = IdleSlot]
                     /\ rlResp' = [path |-> r.path, status |-> 200, stage |-> r.stage,
                                   count |-> count, k |-> k, next |-> TRUE]

\* RateLimiter up to redis.Expire: redis.Incr, and the rest when count is not 1
RateLimiterIncr(s) ==
    /\ slots[s].pc = "incr"
    /\ LET r == slots[s]
           key == rateKey(r.path, ClientIP)
           count == redisCount[key] + 1
           k == IF r.stage = 1 THEN windowSeen[r.path] + 1 ELSE r.k
       IN  \/ \* Incr returns an error: 500, the key is left as it was
              /\ UNCHANGED redisCount
              /\ slots' = [slots EXCEPT ![s] = IdleSlot]
              /\ rlResp' = [path |-> r.path, status |-> 500, stage |-> r.stage,
                            count |-> 0, k |-> r.k, next |-> FALSE]
              /\ UNCHANGED <<passed, windowSeen>>
           \/ /\ redisCount' = [redisCount EXCEPT ![key] = count]
              /\ windowSeen' = [windowSeen EXCEPT ![r.path] =
                                   IF r.stage = 1 THEN @ + 1 ELSE @]
              /\ IF count = 1
                 THEN /\ slots' = [slots EXCEPT ![s] =
                                      [r EXCEPT !.pc = "expire", !.count = count, !.k = k]]
                      /\ UNCHANGED <<passed, rlResp>>
                 ELSE Decide(s, count, k)
    /\ UNCHANGED <<routes, redisTTL, arrivals, expiries>>
    /\ UNCHANGED notRl

\* RateLimiter from redis.Expire on: the result of Expire is not looked at
RateLimiterExpire(s) ==
    /\ slots[s].pc = "expire"
    /\ LET r == slots[s]
           key == rateKey(r.path, ClientIP)
       IN  /\ \E ok \in BOOLEAN :
                 redisTTL' = IF ok /\ redisCount[key] > 0
                             THEN [redisTTL EXCEPT ![key] = TRUE]
                             ELSE redisTTL
           /\ Decide(s, r.count, r.k)
    /\ UNCHANGED <<routes, redisCount, arrivals, expiries, windowSeen>>
    /\ UNCHANGED notRl

\* the handler stops between redis.Incr and redis.Expire (the process dies)
HandlerStops(s) ==
    /\ slots[s].pc = "expire"
    /\ slots' = [slots EXCEPT ![s] = IdleSlot]
    /\ rlResp' = [NoOutcome EXCEPT !.path = slots[s].path]
    /\ UNCHANGED <<routes, redisCount, redisTTL, arrivals, expiries, passed, windowSeen>>
    /\ UNCHANGED notRl

\* Redis removes a key whose expiry has passed: the window is over
KeyExpires ==
    /\ expiries < MaxExpiries
    /\ \E p \in Paths :
          LET key == rateKey(p, ClientIP)
          IN  /\ redisCount[key] > 0
              /\ redisTTL[key]
              /\ redisCount' = [redisCount EXCEPT ![key] = 0]
              /\ redisTTL' = [redisTTL EXCEPT ![key] = FALSE]
              /\ passed' = [passed EXCEPT ![p] = [n \in 1..MaxChain |-> 0]]
              /\ windowSeen' = [windowSeen EXCEPT ![p] = 0]
    /\ expiries' = expiries + 1
    /\ UNCHANGED <<routes, slots, arrivals, rlResp>>
    /\ UNCHANGED notRl

RlNext ==
    \/ \E s \in Slots : Arrive(s)
    \/ \E s \in Slots : RateLimiterIncr(s)
    \/ \E s \in Slots : RateLimiterExpire(s)
    \/ \E s \in Slots : HandlerStops(s)
    \/ KeyExpires

\* one limiter, any limit up to MaxLimit
RlSpec == RlInit /\ [][RlNext]_vars

\* one client sending its requests one after the other
LoginNext ==
    \/ Arrive(1)
    \/ RateLimiterIncr(1)
    \/ RateLimiterExpire(1)
    \/ HandlerStops(1)
    \/ KeyExpires

\* the limiters as main installs them, for a client that only logs in
LoginInit ==
    /\ MigIdle
    /\ TxIdle
    /\ ConcIdle
    /\ routes = [p \in {LoginPath} |-> MainRoutes[p]]
    /\ RedisIdle

LoginSpec == LoginInit /\ [][LoginNext]_vars

\* C16: with one limiter as the only writer of its keys, in one lifetime
\* of a key at most `limit` requests are passed to the next handler, a
\* request is answered 429 exactly when its count is above the limit and is
\* then not passed on, and a request whose Incr failed is answered 500 and
\* not passed on.
C16_RateLimiterBound ==
    /\ \A p \in Paths :
          /\ passed[p][1] <= routes[p][1]
          /\ passed[p][1] <= redisCount[rateKey(p, ClientIP)]
    /\ (rlResp.status = 200) => (rlResp.next /\ rlResp.count <= routes[rlResp.path][1])
    /\ (rlResp.status = 429) => (~rlResp.next /\ rlResp.count > routes[rlResp.path][1])
    /\ (rlResp.status = 500) => ~rlResp.next

C16_Witness ==
    /\ rlResp.status = 429
    /\ routes[rlResp.path][1] = 2
    /\ passed[rlResp.path][1] = 2
    /\ \E s \in Slots : slots[s].pc = "incr" /\ slots[s].path = rlResp.path

\* C17 (as claimed): a rate key that exists in Redis has an expiry, as soon
\* as no request stands between its Incr and its Expire.
C17_WindowExpiry ==
    \A p \in Paths :
        LET key == rateKey(p, ClientIP)
        IN  (/\ redisCount[key] > 0
             /\ \A s \in Slots : ~(slots[s].pc = "expire" /\ slots[s].path = p)) =>
                redisTTL[key]

\* C18 (as claimed): the k-th login request of a window is answered by the
\* login handler when k <= 15 and with 429 when k > 15.
C18_LoginBudget ==
    (rlResp.path = LoginPath /\ rlResp.status \in {200, 429}) =>
        (rlResp.status = 200 <=> rlResp.k <= LoginLimit)
====
